---------------------------- MODULE Spec2Model ----------------------------
(***************************************************************************)
(* State-machine model of main.py of the starships game: the cooperative   *)
(* scheduler of main(), the gameplay coroutines it resumes once per tick   *)
(* and the three shared lists they mutate (coroutines, obstacles,          *)
(* obstacles_in_last_collisions) plus the global year.                     *)
(*                                                                         *)
(* One action is one coroutine.send(None): the coroutine runs from the     *)
(* await it is suspended at to its next await (or to its end), which is    *)
(* atomic because no other code runs in between.                           *)
(*                                                                         *)
(* Positions are kept in tenths of a cell (Unit), so that the speeds 0.5   *)
(* (garbage) and -0.3 (fire) are the integers 5 and -3.                    *)
(*                                                                         *)
(* The star tasks of create_stars only draw and sleep; they touch none of  *)
(* the shared lists.  Spec leaves them out of the task collection;         *)
(* SpecClock and SpecSleep schedule one.                                   *)
(***************************************************************************)
EXTENDS Integers, Sequences, FiniteSets, TLC

\* ------------------------------------------------------------------ bounds
\* Number of scheduler ticks a run of Spec is followed for.
MaxTick == 8
\* Number of ticks on which the player presses the fire button.
MaxShots == 1
\* Number of awaits of explode() (explosion.py, outside main.py).
ExplosionTics == 2
\* Number of scheduler ticks a run of SpecE2E is followed for.
E2ETicks == 43
\* Number of scheduler ticks a run of SpecClock is followed for.
ClockTicks == 104
\* Number of scheduler ticks a run of SpecSleep is followed for.
SleepTicks == 36
\* Largest offset_tics a star of SpecSleep is created with.
MaxOffset == 3

\* ------------------------------------------------------- program constants
Unit == 10
TICS_PER_YEAR == 20
BORDER_LENGTH == 1
GUN_AVAILABLE_YEAR == 2020
GarbageSpeed == 5
FireRowsSpeed == 0 - 3
\* draw_star: the tics of the four phases of one blink.
tics_before_bold == 3
tics_bold == 5
tics_after_bold == 3
tics_dim == 20

\* year = 1957, line 34.
FirstYear == 1957

\* The value of the global year when the run starts.  The module sets it
\* to 1957; 2020 stands for a game whose clock has already advanced, so that
\* the years in which garbage falls and the gun works are within MaxTick
\* ticks of the start.
StartYears == {1957, 2020}

\* canvas.getmaxyx() in Spec: <<rows, columns>> of the terminal.
CanvasSize == <<3, 4>>

\* Sizes <<rows, columns>> of the frames read from the frames folders.
SpaceshipFrameSize == <<1, 1>>
GarbageFrameSizes == {<<2, 2>>}

\* Velocities update_speed() can return, per axis, in tenths of a cell.
SpeedChoices == {0 - Unit, 0, Unit}

\* offset_blink = random.randint(1, 20): the two ends of the range.
StarOffsets == {1, 20}

VARIABLES
    coroutines,     \* coroutines: the task ids, in registration order
    obstacles,      \* obstacles: ids of the registered Obstacles, in order
    obstacles_in_last_collisions,   \* the hit records (Obstacle ids)
    year,           \* year
    task,           \* every coroutine object ever created, by id
    rows_number,    \* canvas.getmaxyx()[0]
    columns_number, \* canvas.getmaxyx()[1]
    snapshot,       \* coroutines.copy() of the current pass
    idx,            \* position of the for loop of main() in its list
    tick,           \* number of passes started
    crashed,        \* an exception other than StopIteration left a task
    resumed,        \* history: ids resumed in the current pass, in order
    shots,          \* history: ticks on which fire was pressed
    ev              \* history: what the last resume did

vars == <<coroutines, obstacles, obstacles_in_last_collisions, year, task,
          rows_number, columns_number, snapshot, idx, tick, crashed,
          resumed, shots, ev>>

\* ----------------------------------------------------------------- helpers
Min(a, b) == IF a < b THEN a ELSE b
Max(a, b) == IF a > b THEN a ELSE b

Range(s) == {s[i] : i \in 1..Len(s)}

Count(s, x) == Cardinality({i \in 1..Len(s) : s[i] = x})

\* list.remove(x): the list without the first occurrence of x.
RemoveFirst(s, x) ==
    LET i == CHOOSE k \in 1..Len(s) : s[k] = x /\ \A j \in 1..(k-1) : s[j] # x
    IN  SubSeq(s, 1, i-1) \o SubSeq(s, i+1, Len(s))

\* A coroutine object that has been created and not yet sent to.
NewTask(kind, row, column, size) ==
    [kind |-> kind, pc |-> "start", row |-> row, column |-> column,
     rows_size |-> size[1], columns_size |-> size[2],
     obstacle_row |-> 0, tics |-> 0,
     born |-> tick, first |-> 0, regs |-> 0, unregs |-> 0, exit |-> "none",
     start_row |-> row, offset_tics |-> 0, phase |-> 0,
     called |-> 0, slept |-> 0, explosions |-> 0]

NoEvent ==
    [id |-> 0, kind |-> "none", pc |-> "none", overlap |-> FALSE,
     hit |-> FALSE, hits_added |-> 0, drew |-> FALSE, completed |-> FALSE,
     polled |-> FALSE, pressed |-> FALSE, year |-> 0, fires |-> 0,
     gameovers |-> 0, row |-> 0, column |-> 0,
     woke |-> FALSE, since |-> 0, waited |-> 0,
     asked |-> FALSE, spawned |-> 0, struck |-> FALSE, records |-> 0]


\* ---------------------------------------------------------------- geometry
\* Obstacle.has_collision (obstacles.py): the box of obstacle o overlaps the
\* box with top-left corner (row, column) and the given size in cells.
has_collision(o, row, column, size_rows, size_columns) ==
    /\ o.obstacle_row < row + Unit * size_rows
    /\ row < o.obstacle_row + Unit * o.rows_size
    /\ o.column < column + Unit * size_columns
    /\ column < o.column + Unit * o.columns_size

\* The registered obstacles the box collides with, in the order in which
\* "for obstacle in obstacles" meets them.
Colliding(row, column, size_rows, size_columns) ==
    SelectSeq(obstacles,
              LAMBDA o : has_collision(task[o], row, column,
                                       size_rows, size_columns))

\* get_garbage_delay_tics (game_scenario.py): tics between two pieces of
\* garbage in the given year, 0 standing for None (no garbage yet).  The
\* table is one of the shape the scenario has: nothing before the first
\* threshold, then a delay that never grows with the year.
get_garbage_delay_tics(y) ==
    IF y < 1961 THEN 0
    ELSE IF y < 1969 THEN 20
    ELSE IF y < 1981 THEN 14
    ELSE IF y < 1995 THEN 10
    ELSE IF y < 2010 THEN 8
    ELSE IF y < 2020 THEN 6
    ELSE 2

\* row = max(row, min_rows); row = min(row, max_rows - size): lines 230-233.
ClampNoSize(v, lo, hi, size) == Min(Max(v, lo), hi)
ClampToPlayfield(v, lo, hi, size) == Min(Max(v, lo), hi - Unit * size)

\* column = max(column, 0); column = min(column, columns_number - 1).
ClampGarbageColumn(column, columns) == Min(Max(column, 0), Unit * (columns - 1))

\* year >= GUN_AVAILABLE_YEAR, line 235.
GunAfterYear(y) == y > GUN_AVAILABLE_YEAR
GunAvailable(y) == y >= GUN_AVAILABLE_YEAR

\* The for loop of run_spaceship over the obstacles (lines 244-248) records
\* the first obstacle it collides with and returns.
ShipRecordsAll(colliding) == colliding
ShipRecords(colliding) == <<Head(colliding)>>

\* The for loop of draw_fire over the obstacles (lines 193-196) records the
\* first obstacle it collides with and returns.
FireRecordsAll(colliding) == colliding
FireRecords(colliding) == <<Head(colliding)>>

\* round(v) of Python for v >= 0 given in tenths: the nearest integer, a
\* half going to the even one.
Round(v) ==
    LET q == v \div Unit
        r == v % Unit
    IN  IF 2 * r < Unit THEN q
        ELSE IF 2 * r > Unit THEN q + 1
        ELSE IF q % 2 = 0 THEN q ELSE q + 1

\* The loop of draw_fire with no test of the upper edge.
FireBelowBottomEdge(row, column) ==
    /\ row < Unit * (rows_number - BORDER_LENGTH)
    /\ 0 < column /\ column < Unit * (columns_number - BORDER_LENGTH)

\* while 0 < row < max_row and 0 < column < max_column, line 192.
FireInBounds(row, column) ==
    /\ 0 < row /\ row < Unit * (rows_number - BORDER_LENGTH)
    /\ 0 < column /\ column < Unit * (columns_number - BORDER_LENGTH)

\* while row < rows_number, line 156.
GarbageOnCanvasOrBelow(row, rows) == row <= Unit * rows
GarbageOnCanvas(row, rows) == row < Unit * rows

\* ---------------------------------------------------------------- scheduler
\* The list the for loop of main() walks: a copy taken when the pass starts.
LiveList(live, copy) == live
PassList(live, copy) == copy

Running == ~crashed /\ idx <= Len(PassList(coroutines, snapshot))
PassDone == idx > Len(PassList(coroutines, snapshot))
Cur == PassList(coroutines, snapshot)[idx]

\* The coroutine objects of one coroutine function.
Tasks(kind) == {id \in DOMAIN task : task[id].kind = kind}

\* "while True", line 290: the loop of main() has no way out, whatever the
\* tasks have done.
UntilGameOver == Tasks("gameover") = {}
KeepTicking == TRUE

\* "for coroutine in coroutines.copy()": a new pass starts.
TickStart(limit) ==
    /\ ~crashed /\ PassDone /\ tick < limit
    /\ KeepTicking
    /\ snapshot' = coroutines
    /\ idx' = 1
    /\ tick' = tick + 1
    /\ resumed' = <<>>
    /\ UNCHANGED <<coroutines, obstacles, obstacles_in_last_collisions, year,
                   task, rows_number, columns_number, crashed, shots, ev>>

\* A coroutine that has returned has no frame any more: its locals are gone.
Returned(rec) ==
    [rec EXCEPT !.row = 0, !.column = 0, !.obstacle_row = 0, !.tics = 0]

\* except StopIteration: coroutines.remove(coroutine), lines 294-295: only
\* the coroutine whose send() raised StopIteration is removed.
KeepCoroutine(list, id, done) == list
AfterSend(list, id, done) == IF done THEN RemoveFirst(list, id) ELSE list

\* The end of one coroutine.send(None): the task is left as rec, the tasks
\* it appended to coroutines are spawned, and when it raised StopIteration
\* (done) main() removes it from coroutines.
Finish(id, rec, done, spawned) ==
    LET grown == coroutines \o [i \in 1..Len(spawned) |-> Len(task) + i]
        left == IF done THEN Returned(rec) ELSE rec
    IN  /\ task' = [task EXCEPT ![id] =
                       [left EXCEPT !.first = IF @ = 0 THEN tick ELSE @]]
                   \o spawned
        /\ coroutines' = AfterSend(grown, id, done)
        /\ idx' = idx + 1
        /\ resumed' = Append(resumed, id)
        /\ UNCHANGED <<rows_number, columns_number, snapshot, tick>>

Event(id, pc) == [NoEvent EXCEPT !.id = id, !.kind = task[id].kind, !.pc = pc]

\* sleep(tics), lines 37-40: "for _ in range(tics): await asyncio.sleep(0)"
\* awaits tics times, and not at all when tics is 0.
SleepOneMore(tics) == tics + 1
SleepYields(tics) == tics

\* The coroutine calls sleep(n) and is suspended at its first await.
GoToSleep(rec, n) ==
    [rec EXCEPT !.pc = "sleep", !.tics = SleepYields(n),
                !.called = tick, !.slept = n]

\* The statement after the sleep the coroutine was suspended in runs.
Woke(e, rec) == [e EXCEPT !.woke = TRUE, !.since = rec.called,
                          !.waited = rec.slept]

\* sleep(tics) while it is being awaited: one more resume that only yields.
StillSleeping(id) ==
    /\ task[id].pc = "sleep" /\ task[id].tics > 1
    /\ Finish(id, [task[id] EXCEPT !.tics = @ - 1], FALSE, <<>>)
    /\ ev' = Event(id, "sleep")
    /\ UNCHANGED <<obstacles, obstacles_in_last_collisions, year, crashed, shots>>


\* ------------------------------------------------------------ run_spaceship
\* read_controls(canvas): the fire button, pressed on at most MaxShots ticks.
FireChoices == IF shots < MaxShots THEN BOOLEAN ELSE {FALSE}

\* One resume of run_spaceship.  After the await of line 241 it erases the
\* frame and tests the obstacles (lines 242-248); unless it returned, it
\* runs the next iteration of the for loop up to the await (lines 223-241).
\* update_speed() may return any velocity of SpeedChoices.
ResumeSpaceship ==
    /\ Running /\ task[Cur].kind = "spaceship"
    /\ LET id == Cur
           t == task[id]
           colliding == IF t.pc = "sleep"
                        THEN Colliding(t.row, t.column, t.rows_size, t.columns_size)
                        ELSE <<>>
           records == IF colliding = <<>> THEN <<>> ELSE ShipRecords(colliding)
       IN  IF records # <<>>
           THEN /\ obstacles_in_last_collisions' =
                       obstacles_in_last_collisions \o records
                /\ Finish(id, [t EXCEPT !.pc = "done"], TRUE,
                          [i \in 1..Len(records) |->
                               NewTask("gameover", 0, 0, <<0, 0>>)])
                /\ ev' = [Event(id, t.pc) EXCEPT !.overlap = (colliding # <<>>),
                                !.hit = TRUE,
                                !.hits_added = Len(records),
                                !.gameovers = Len(records),
                                !.completed = TRUE]
                /\ UNCHANGED <<obstacles, year, crashed, shots>>
           ELSE \E row_speed \in SpeedChoices, column_speed \in SpeedChoices,
                   fire_button_pressed \in FireChoices :
                  LET row == ClampToPlayfield(t.row + row_speed,
                                 Unit * BORDER_LENGTH,
                                 Unit * (rows_number - BORDER_LENGTH),
                                 t.rows_size)
                      column == ClampToPlayfield(t.column + column_speed,
                                 Unit * BORDER_LENGTH,
                                 Unit * (columns_number - BORDER_LENGTH),
                                 t.columns_size)
                      shoot == fire_button_pressed /\ GunAvailable(year)
                      spaceship_center_column ==
                          column + Unit * (t.columns_size \div 2)
                  IN  /\ Finish(id,
                                [t EXCEPT !.pc = "sleep", !.row = row,
                                          !.column = column],
                                FALSE,
                                IF shoot
                                THEN <<NewTask("fire", row,
                                               spaceship_center_column, <<1, 1>>)>>
                                ELSE <<>>)
                      /\ shots' = IF fire_button_pressed THEN shots + 1 ELSE shots
                      /\ ev' = [Event(id, t.pc) EXCEPT !.overlap = (colliding # <<>>),
                                      !.polled = TRUE,
                                      !.pressed = fire_button_pressed,
                                      !.year = year,
                                      !.fires = IF shoot THEN 1 ELSE 0,
                                      !.drew = TRUE]
                      /\ UNCHANGED <<obstacles, obstacles_in_last_collisions,
                                     year, crashed>>

\* ------------------------------------------------------------ show_gameover
\* One resume of show_gameover: it draws the frame and sleeps, forever.
ResumeGameover ==
    /\ Running /\ task[Cur].kind = "gameover"
    /\ Finish(Cur, [task[Cur] EXCEPT !.pc = "sleep"], FALSE, <<>>)
    /\ ev' = [Event(Cur, task[Cur].pc) EXCEPT !.drew = TRUE]
    /\ UNCHANGED <<obstacles, obstacles_in_last_collisions, year, crashed, shots>>

\* ------------------------------------------------------------- show_caption
\* One resume of show_caption: erase, redraw the caption of the year, sleep.
ResumeCaption ==
    /\ Running /\ task[Cur].kind = "caption"
    /\ Finish(Cur, [task[Cur] EXCEPT !.pc = "sleep"], FALSE, <<>>)
    /\ ev' = [Event(Cur, task[Cur].pc) EXCEPT !.drew = TRUE, !.year = year]
    /\ UNCHANGED <<obstacles, obstacles_in_last_collisions, year, crashed, shots>>

\* -------------------------------------------------------------- handle_year
\* year += 1, line 78.
YearAfterNext(y) == y + 2
NextYear(y) == y + 1

\* One resume of handle_year: sleep(tics_per_year), then year += 1.
ResumeYear ==
    /\ Running /\ task[Cur].kind = "year"
    /\ \/ StillSleeping(Cur)
       \/ /\ task[Cur].pc = "start"
          /\ Finish(Cur, GoToSleep(task[Cur], TICS_PER_YEAR), FALSE, <<>>)
          /\ ev' = Event(Cur, "start")
          /\ UNCHANGED <<obstacles, obstacles_in_last_collisions, year,
                         crashed, shots>>
       \/ /\ task[Cur].pc = "sleep" /\ task[Cur].tics = 1
          /\ year' = NextYear(year)
          /\ Finish(Cur, GoToSleep(task[Cur], TICS_PER_YEAR), FALSE, <<>>)
          /\ ev' = Woke([Event(Cur, "sleep") EXCEPT !.year = NextYear(year)],
                        task[Cur])
          /\ UNCHANGED <<obstacles, obstacles_in_last_collisions, crashed, shots>>

\* -------------------------------------------------- fill_orbit_with_garbage
\* await sleep(delay_tics), line 139, after a piece of garbage was added.
SleepOneTic(delay_tics) == 1
SleepAfterSpawn(delay_tics) == delay_tics

\* One resume of fill_orbit_with_garbage: when its sleep is over (or at its
\* start) it asks for the delay of the year, appends a fly_garbage coroutine
\* for a random column in 0..columns and a random frame when there is one,
\* and sleeps for the delay (one tic when there is none).
ResumeOrbit ==
    /\ Running /\ task[Cur].kind = "orbit"
    /\ \/ StillSleeping(Cur)
       \/ /\ task[Cur].pc = "start" \/ task[Cur].tics = 1
          /\ LET id == Cur
                 delay_tics == get_garbage_delay_tics(year)
                 e == [Event(id, task[id].pc) EXCEPT !.year = year,
                                                     !.asked = TRUE]
                 asked == IF task[id].pc = "start" THEN e ELSE Woke(e, task[id])
             IN  IF delay_tics # 0
                 THEN \E column \in 0..columns_number,
                         garbage_frame \in GarbageFrameSizes :
                        /\ Finish(id,
                                  GoToSleep(task[id], SleepAfterSpawn(delay_tics)),
                                  FALSE,
                                  <<NewTask("garbage", 0, Unit * column,
                                            garbage_frame)>>)
                        /\ ev' = [asked EXCEPT !.spawned = 1]
                 ELSE /\ Finish(id, GoToSleep(task[id], 1), FALSE, <<>>)
                      /\ ev' = asked
          /\ UNCHANGED <<obstacles, obstacles_in_last_collisions, year,
                         crashed, shots>>

\* ---------------------------------------------------------------- draw_star
\* The tics of the sleep that ends phase 1..4 of the while loop of draw_star.
StarTics(phase) ==
    CASE phase = 1 -> tics_before_bold
      [] phase = 2 -> tics_bold
      [] phase = 3 -> tics_after_bold
      [] phase = 4 -> tics_dim

\* A draw_star coroutine that has been created and not yet sent to.
NewStar(row, column, offset_tics) ==
    [NewTask("star", row, column, <<1, 1>>) EXCEPT !.offset_tics = offset_tics]

\* One resume of draw_star.  The first one draws the dim star and calls
\* sleep(offset_tics); when that sleep does not await, the coroutine goes
\* on into the while loop within the same resume.  Each later resume that
\* ends a sleep draws the star of the next phase and sleeps again.
ResumeStar ==
    /\ Running /\ task[Cur].kind = "star"
    /\ LET id == Cur
           t == task[id]
           next == (t.phase % 4) + 1
       IN  \/ StillSleeping(id)
           \/ /\ t.pc = "start"
              /\ IF SleepYields(t.offset_tics) > 0
                 THEN /\ Finish(id, GoToSleep(t, t.offset_tics), FALSE, <<>>)
                      /\ ev' = [Event(id, "start") EXCEPT !.drew = TRUE]
                 ELSE /\ Finish(id, GoToSleep([t EXCEPT !.phase = 1],
                                              StarTics(1)), FALSE, <<>>)
                      /\ ev' = [Event(id, "start") EXCEPT !.drew = TRUE,
                                      !.woke = TRUE, !.since = tick,
                                      !.waited = t.offset_tics]
              /\ UNCHANGED <<obstacles, obstacles_in_last_collisions, year,
                             crashed, shots>>
           \/ /\ t.pc = "sleep" /\ t.tics = 1
              /\ Finish(id, GoToSleep([t EXCEPT !.phase = next], StarTics(next)),
                        FALSE, <<>>)
              /\ ev' = Woke([Event(id, "sleep") EXCEPT !.drew = TRUE], t)
              /\ UNCHANGED <<obstacles, obstacles_in_last_collisions, year,
                             crashed, shots>>


\* -------------------------------------------------------------- fly_garbage
\* obstacles.append(obstacle), line 153.
RegisterObstacle(obs, id) == Append(obs, id)

\* Lines 163-168 leave the registry alone: the struck obstacle stays
\* registered while its explosion is shown.
UnregisterWhenStruck(obs, id) == RemoveFirst(obs, id)
ObstaclesWhenStruck(obs, id) == obs

\* obstacles_in_last_collisions.remove(obstacle), line 164: the faller
\* takes one record of its obstacle out of the hit records.
KeepRecord(hits, id) == hits
ConsumeRecord(hits, id) == RemoveFirst(hits, id)

\* finally: obstacles.remove(obstacle), lines 169-170, runs on both ways out
\* of the try block: the end of the while loop and the return after the
\* explosion (exploded).
CleanupOnlyAfterLoop(obs, id, exploded) ==
    IF exploded THEN obs ELSE RemoveFirst(obs, id)
CleanupOnExit(obs, id, exploded) == RemoveFirst(obs, id)

\* The coroutine leaves its try block.  list.remove raises ValueError when
\* the obstacle is not in the list; that exception is not a StopIteration,
\* so it leaves main().
GarbageExit(id, t, exploded) ==
    IF id \in Range(obstacles)
    THEN LET left == CleanupOnExit(obstacles, id, exploded)
         IN  /\ obstacles' = left
             /\ Finish(id, [t EXCEPT !.pc = "done",
                                     !.exit = IF exploded THEN "exploded"
                                                          ELSE "bottom",
                                     !.unregs = @ + Count(obstacles, id)
                                                  - Count(left, id)],
                       TRUE, <<>>)
             /\ ev' = [Event(id, task[id].pc) EXCEPT !.completed = TRUE,
                             !.struck = (t.pc = "fall" /\
                                 Count(obstacles_in_last_collisions, id) > 0)]
             /\ UNCHANGED <<obstacles_in_last_collisions, year, crashed, shots>>
    ELSE /\ crashed' = TRUE
         /\ Finish(id, t, FALSE, <<>>)
         /\ ev' = Event(id, task[id].pc)
         /\ UNCHANGED <<obstacles, obstacles_in_last_collisions, year, shots>>

\* One resume of fly_garbage.
ResumeGarbage ==
    /\ Running /\ task[Cur].kind = "garbage"
    /\ LET id == Cur
           t == task[id]
           records == Count(obstacles_in_last_collisions, id)
           struck == records > 0
       IN  \/ \* lines 146-159: clamp the column, register the obstacle, draw
              /\ t.pc = "start"
              /\ GarbageOnCanvas(0, rows_number)
              /\ obstacles' = RegisterObstacle(obstacles, id)
              /\ Finish(id, [t EXCEPT !.pc = "fall", !.row = 0,
                                !.column = ClampGarbageColumn(t.column, columns_number),
                                !.obstacle_row = 0,
                                !.regs = @ + 1],
                        FALSE, <<>>)
              /\ ev' = [Event(id, "start") EXCEPT !.drew = TRUE]
              /\ UNCHANGED <<obstacles_in_last_collisions, year, crashed, shots>>
           \/ \* lines 160-168: erase, fall, and explode when struck
              /\ t.pc = "fall"
              /\ id \in Range(obstacles_in_last_collisions)
              /\ obstacles_in_last_collisions' =
                     ConsumeRecord(obstacles_in_last_collisions, id)
              /\ obstacles' = ObstaclesWhenStruck(obstacles, id)
              /\ Finish(id, [t EXCEPT !.pc = "explode", !.row = @ + GarbageSpeed,
                                      !.tics = ExplosionTics,
                                      !.explosions = @ + 1],
                        FALSE, <<>>)
              /\ ev' = [Event(id, "fall") EXCEPT !.hit = TRUE, !.struck = struck,
                              !.records = records]
              /\ UNCHANGED <<year, crashed, shots>>
           \/ \* lines 160-161, 156-159: erase, fall, draw one step lower
              /\ t.pc = "fall"
              /\ id \notin Range(obstacles_in_last_collisions)
              /\ GarbageOnCanvas(t.row + GarbageSpeed, rows_number)
              /\ Finish(id, [t EXCEPT !.row = @ + GarbageSpeed,
                                      !.obstacle_row = t.row + GarbageSpeed],
                        FALSE, <<>>)
              /\ ev' = [Event(id, "fall") EXCEPT !.drew = TRUE, !.struck = struck]
              /\ UNCHANGED <<obstacles, obstacles_in_last_collisions, year,
                             crashed, shots>>
           \/ \* lines 160-161, 156, 170: the garbage has left the canvas
              /\ t.pc = "fall"
              /\ id \notin Range(obstacles_in_last_collisions)
              /\ ~GarbageOnCanvas(t.row + GarbageSpeed, rows_number)
              /\ GarbageExit(id, [t EXCEPT !.row = @ + GarbageSpeed], FALSE)
           \/ \* explode() is still showing its frames
              /\ t.pc = "explode" /\ t.tics > 1
              /\ Finish(id, [t EXCEPT !.tics = @ - 1], FALSE, <<>>)
              /\ ev' = Event(id, "explode")
              /\ UNCHANGED <<obstacles, obstacles_in_last_collisions, year,
                             crashed, shots>>
           \/ \* lines 167-170: explode() returns, then return and finally
              /\ t.pc = "explode" /\ t.tics = 1
              /\ GarbageExit(id, [t EXCEPT !.tics = 0], TRUE)

\* ---------------------------------------------------------------- draw_fire
\* One resume of draw_fire.
ResumeFire ==
    /\ Running /\ task[Cur].kind = "fire"
    /\ LET id == Cur
           t == task[id]
           overlap == Colliding(t.row, t.column, 1, 1) # <<>>
           row == t.row + FireRowsSpeed
           colliding == Colliding(row, t.column, 1, 1)
       IN  \/ \* lines 175-178 and 179-180: the spark and the glyph
              /\ t.pc \in {"start", "spark"}
              /\ Finish(id, [t EXCEPT !.pc = IF t.pc = "start" THEN "spark"
                                                               ELSE "glyph"],
                        FALSE, <<>>)
              /\ ev' = [Event(id, t.pc) EXCEPT !.overlap = overlap, !.drew = TRUE,
                              !.row = t.row, !.column = t.column]
              /\ UNCHANGED <<obstacles, obstacles_in_last_collisions, year,
                             crashed, shots>>
           \/ \* lines 181-196 and 199-196: erase, advance, hit an obstacle
              /\ t.pc \in {"glyph", "flight"}
              /\ FireInBounds(row, t.column)
              /\ colliding # <<>>
              /\ obstacles_in_last_collisions' =
                     obstacles_in_last_collisions \o FireRecords(colliding)
              /\ Finish(id, [t EXCEPT !.pc = "done", !.row = row], TRUE, <<>>)
              /\ ev' = [Event(id, t.pc) EXCEPT !.overlap = overlap, !.hit = TRUE,
                              !.hits_added = Len(FireRecords(colliding)),
                              !.completed = TRUE,
                              !.row = row, !.column = t.column]
              /\ UNCHANGED <<obstacles, year, crashed, shots>>
           \/ \* lines 181-198 and 199-198: erase, advance, draw
              /\ t.pc \in {"glyph", "flight"}
              /\ FireInBounds(row, t.column)
              /\ colliding = <<>>
              /\ Finish(id, [t EXCEPT !.pc = "flight", !.row = row], FALSE, <<>>)
              /\ ev' = [Event(id, t.pc) EXCEPT !.overlap = overlap, !.drew = TRUE,
                              !.row = row, !.column = t.column]
              /\ UNCHANGED <<obstacles, obstacles_in_last_collisions, year,
                             crashed, shots>>
           \/ \* lines 199-201, 192: the fire has left the playfield
              /\ t.pc \in {"glyph", "flight"}
              /\ ~FireInBounds(row, t.column)
              /\ Finish(id, [t EXCEPT !.pc = "done", !.row = row], TRUE, <<>>)
              /\ ev' = [Event(id, t.pc) EXCEPT !.overlap = overlap,
                              !.completed = TRUE,
                              !.row = row, !.column = t.column]
              /\ UNCHANGED <<obstacles, obstacles_in_last_collisions, year,
                             crashed, shots>>

\* ------------------------------------------------------------ specification
\* main(): the coroutines appended before the loop starts (lines 275-286).
InitTasks ==
    <<NewTask("spaceship", Unit * (rows_number \div 2),
              Unit * (columns_number \div 2), SpaceshipFrameSize),
      NewTask("orbit", 0, 0, <<0, 0>>),
      NewTask("year", 0, 0, <<0, 0>>),
      NewTask("caption", 0, 0, <<0, 0>>)>>

Init ==
    /\ rows_number = CanvasSize[1]
    /\ columns_number = CanvasSize[2]
    /\ year \in StartYears
    /\ tick = 0
    /\ task = InitTasks
    /\ coroutines = <<1, 2, 3, 4>>
    /\ obstacles = <<>>
    /\ obstacles_in_last_collisions = <<>>
    /\ snapshot = <<>>
    /\ idx = 1
    /\ crashed = FALSE
    /\ resumed = <<>>
    /\ shots = 0
    /\ ev = NoEvent

Next ==
    \/ TickStart(MaxTick)
    \/ ResumeSpaceship
    \/ ResumeOrbit
    \/ ResumeYear
    \/ ResumeCaption
    \/ ResumeGarbage
    \/ ResumeFire
    \/ ResumeGameover

Spec == Init /\ [][Next]_vars

TypeOK ==
    /\ idx \in 1..(Len(snapshot) + 1)
    /\ Range(coroutines) \subseteq DOMAIN task
    /\ Range(obstacles) \subseteq DOMAIN task
    /\ tick \in 0..MaxTick


\* The end-to-end scenario: one fly_garbage coroutine for column 10 and a
\* frame of 2 rows by 3 columns on a canvas of 20 rows, beside the clock and
\* the caption, with no spaceship, hence no fire and no hit record.
InitE2E ==
    /\ rows_number = 20
    /\ columns_number = 40
    /\ year = 1957
    /\ tick = 0
    /\ task = <<NewTask("garbage", 0, Unit * 10, <<2, 3>>),
                NewTask("year", 0, 0, <<0, 0>>),
                NewTask("caption", 0, 0, <<0, 0>>)>>
    /\ coroutines = <<1, 2, 3>>
    /\ obstacles = <<>>
    /\ obstacles_in_last_collisions = <<>>
    /\ snapshot = <<>>
    /\ idx = 1
    /\ crashed = FALSE
    /\ resumed = <<>>
    /\ shots = 0
    /\ ev = NoEvent

NextE2E ==
    \/ TickStart(E2ETicks)
    \/ ResumeGarbage
    \/ ResumeYear
    \/ ResumeCaption

SpecE2E == InitE2E /\ [][NextE2E]_vars


\* The game from its real start in 1957, with one of the stars of
\* create_stars (which main() appends before the spaceship), followed until
\* the first garbage has fallen in 1961 and the clock has reached 1962.
\* The gun does not work in these years, so no draw_fire coroutine exists.
InitClock ==
    /\ rows_number = CanvasSize[1]
    /\ columns_number = CanvasSize[2]
    /\ year = FirstYear
    /\ tick = 0
    /\ \E offset_blink \in StarOffsets :
          task = <<NewStar(Unit * BORDER_LENGTH, Unit * BORDER_LENGTH,
                           offset_blink)>> \o InitTasks
    /\ coroutines = <<1, 2, 3, 4, 5>>
    /\ obstacles = <<>>
    /\ obstacles_in_last_collisions = <<>>
    /\ snapshot = <<>>
    /\ idx = 1
    /\ crashed = FALSE
    /\ resumed = <<>>
    /\ shots = 0
    /\ ev = NoEvent

NextClock ==
    \/ TickStart(ClockTicks)
    \/ ResumeStar
    \/ ResumeSpaceship
    \/ ResumeOrbit
    \/ ResumeYear
    \/ ResumeCaption
    \/ ResumeGarbage
    \/ ResumeGameover

SpecClock == InitClock /\ [][NextClock]_vars


\* sleep() on its own: draw_star coroutines created with every offset_tics
\* of 0..MaxOffset (0 is the default of the parameter) beside the year
\* clock, under the loop of main().
InitSleep ==
    /\ rows_number = CanvasSize[1]
    /\ columns_number = CanvasSize[2]
    /\ year = FirstYear
    /\ tick = 0
    /\ \E offset_tics \in 0..MaxOffset :
          task = <<NewStar(Unit * BORDER_LENGTH, Unit * BORDER_LENGTH,
                           offset_tics),
                   NewTask("year", 0, 0, <<0, 0>>)>>
    /\ coroutines = <<1, 2>>
    /\ obstacles = <<>>
    /\ obstacles_in_last_collisions = <<>>
    /\ snapshot = <<>>
    /\ idx = 1
    /\ crashed = FALSE
    /\ resumed = <<>>
    /\ shots = 0
    /\ ev = NoEvent

NextSleep ==
    \/ TickStart(SleepTicks)
    \/ ResumeStar
    \/ ResumeYear

SpecSleep == InitSleep /\ [][NextSleep]_vars


\* ------------------------------------------------------------------- claims
Live(kind) == {i \in 1..Len(coroutines) : task[coroutines[i]].kind = kind}
CompletedInPass == {id \in Range(snapshot) : task[id].pc = "done"}

\* C1: in every tick the tasks that were in the collection when the tick
\* started are resumed once each, in registration order, also when several
\* of them complete in that tick: the resumes made so far are a prefix of
\* the collection as it was at the start, and all of it when the pass ends.
C1_EachTaskOncePerTick ==
    /\ Len(resumed) <= Len(snapshot)
    /\ resumed = SubSeq(snapshot, 1, Len(resumed))
    /\ PassDone => resumed = snapshot

C1_Witness ==
    /\ PassDone
    /\ Cardinality(CompletedInPass) >= 2
    /\ \E i \in 1..Len(snapshot) :
          /\ snapshot[i] \in CompletedInPass
          /\ i < Len(snapshot)
    /\ resumed = snapshot

\* C2: a garbage, fire or game-over task appended during tick t is not
\* resumed in tick t; its first resume is in tick t + 1.
C2_SpawnedRunsNextTick ==
    \A id \in Tasks("garbage") \cup Tasks("fire") \cup Tasks("gameover") :
       LET t == task[id]
       IN  /\ t.born = tick => t.first = 0 /\ t.pc = "start"
           /\ t.first # 0 => t.first = t.born + 1
           /\ PassDone /\ tick > t.born => t.first = t.born + 1

C2_Witness ==
    /\ \E id \in Tasks("garbage") : task[id].first = task[id].born + 1
    /\ \E id \in Tasks("fire") : task[id].first = task[id].born + 1
    /\ \E id \in Tasks("gameover") : task[id].first = task[id].born + 1

NoDuplicates(s) == \A i, j \in 1..Len(s) : s[i] = s[j] => i = j

\* C3 as stated: at every tick boundary the registry holds as many obstacles
\* as the task collection holds garbage tasks, and no obstacle twice.
C3_RegistryMatchesAllFallers ==
    PassDone => /\ Len(obstacles) = Cardinality(Live("garbage"))
                /\ NoDuplicates(obstacles)

\* C3 as amended: at every tick boundary the registry holds as many
\* obstacles as the task collection holds garbage tasks that have been
\* resumed at least once, and no obstacle twice.
C3_RegistryMatchesStartedFallers ==
    PassDone =>
       /\ Len(obstacles) =
             Cardinality({i \in Live("garbage") : task[coroutines[i]].pc # "start"})
       /\ NoDuplicates(obstacles)

C3_Witness ==
    /\ PassDone
    /\ Len(obstacles) >= 2
    /\ \E i \in Live("garbage") : task[coroutines[i]].pc = "start"
    /\ \E i \in Live("garbage") : task[coroutines[i]].pc = "explode"

\* C4: every obstacle is added to the registry once, when its garbage task
\* starts, and removed once, when that task exits, whichever way it exits;
\* it is not in the registry after that, and the removal never fails.
C4_RegisteredOnceRemovedOnce ==
    /\ ~crashed
    /\ \A id \in Tasks("garbage") :
          LET t == task[id]
          IN  /\ t.pc = "start" =>
                    t.regs = 0 /\ t.unregs = 0 /\ Count(obstacles, id) = 0
              /\ t.pc \in {"fall", "explode"} =>
                    t.regs = 1 /\ t.unregs = 0 /\ Count(obstacles, id) = 1
              /\ t.pc = "done" =>
                    t.regs = 1 /\ t.unregs = 1 /\ Count(obstacles, id) = 0
              /\ t.pc = "done" <=> t.exit # "none"
              /\ t.pc = "done" <=> id \notin Range(coroutines)

C4_Witness ==
    /\ \E id \in Tasks("garbage") :
          task[id].exit = "bottom" /\ id \notin Range(obstacles)
    /\ \E id \in Tasks("garbage") :
          task[id].exit = "exploded" /\ id \notin Range(obstacles)

\* C5 as stated: no hit record of an obstacle remains in the hit records
\* once the garbage task of that obstacle has completed.
C5_NoRecordAfterCompletion ==
    \A id \in Tasks("garbage") :
       task[id].pc = "done" => id \notin Range(obstacles_in_last_collisions)


\* The task the last resume was of, as that resume left it.
Last == task[ev.id]

\* C6 as stated: a fire task resumed while its position overlaps a
\* registered obstacle appends exactly one hit record, draws nothing and
\* completes in that resume, on every tick of its life.
C6_HitOnEveryTick ==
    ev.kind = "fire" /\ ev.overlap =>
       ev.hits_added = 1 /\ ~ev.drew /\ ev.completed

\* C6 as amended: a fire task resumed in its flight loop (from its third
\* resume on) whose position, once advanced (ev.row, ev.column: the fire
\* does not touch the registry), is within the flight bounds and
\* overlaps a registered obstacle appends exactly one hit record, for the
\* first such obstacle of the registry, draws no glyph and completes in that
\* resume; on its spark and glyph ticks it records nothing and goes on.
C6_HitInFlight ==
    ev.kind = "fire" =>
       LET struck == Colliding(ev.row, ev.column, 1, 1)
           hits == obstacles_in_last_collisions
       IN  /\ ev.pc \in {"glyph", "flight"}
                /\ FireInBounds(ev.row, ev.column) /\ struck # <<>> =>
                   /\ ev.hits_added = 1
                   /\ hits # <<>> /\ hits[Len(hits)] = Head(struck)
                   /\ ~ev.drew
                   /\ Last.pc = "done" /\ ev.id \notin Range(coroutines)
           /\ ev.pc \in {"start", "spark"} =>
                   ev.hits_added = 0 /\ ev.drew /\ Last.pc # "done"

C6_Witness ==
    /\ ev.kind = "fire" /\ ev.pc = "flight"
    /\ FireInBounds(ev.row, ev.column)
    /\ Colliding(ev.row, ev.column, 1, 1) # <<>>
    /\ Last.pc = "done"
    /\ Len(obstacles) >= 2

\* C7 as stated: in the end-to-end scenario the garbage task has completed
\* and its obstacle is out of the registry once 40 ticks have run, the tick
\* of its first resume being the first of them.
C7_GoneAfter40Ticks ==
    PassDone /\ tick >= task[1].first + 39 =>
       task[1].pc = "done" /\ 1 \notin Range(obstacles)

\* C7 as amended: it has completed and its obstacle is out of the registry
\* once 41 ticks have run, the tick of its first resume being the first.
C7_GoneAfter41Ticks ==
    PassDone /\ tick >= task[1].first + 40 =>
       task[1].pc = "done" /\ 1 \notin Range(obstacles)

C7_Witness ==
    /\ PassDone /\ tick = task[1].first + 40
    /\ task[1].kind = "garbage" /\ task[1].rows_size = 2
    /\ task[1].columns_size = 3
    /\ rows_number = 20
    /\ task[1].exit = "bottom" /\ obstacles = <<>>
    /\ obstacles_in_last_collisions = <<>>

\* C8: a spaceship task that finds its box overlapping a registered obstacle
\* appends one hit record and one game-over task and completes; at every
\* tick boundary from then on the collection holds no spaceship task and
\* exactly one game-over task, which never completes, and no fire task is
\* spawned any more; before, it holds one spaceship and no game-over task.
C8_GameOver ==
    /\ ev.kind = "spaceship" /\ ev.overlap =>
          ev.hits_added = 1 /\ ev.gameovers = 1 /\ ev.completed
    /\ PassDone =>
          \/ /\ Cardinality(Live("spaceship")) = 1
             /\ Tasks("gameover") = {}
             /\ \A id \in Tasks("spaceship") : task[id].pc # "done"
          \/ /\ Live("spaceship") = {}
             /\ Cardinality(Live("gameover")) = 1
             /\ Cardinality(Tasks("gameover")) = 1
             /\ \A id \in Tasks("spaceship") : task[id].pc = "done"
    /\ \A g \in Tasks("gameover") :
          /\ task[g].pc # "done"
          /\ \A f \in Tasks("fire") : task[f].born < task[g].born

C8_Witness ==
    /\ PassDone
    /\ \E g \in Tasks("gameover") :
          /\ tick >= task[g].born + 2
          /\ task[g].pc = "sleep"
          /\ g \in Range(coroutines)
    /\ Live("spaceship") = {}
    /\ Tasks("fire") # {}

\* C9: the spaceship task spawns a fire task on a tick exactly when fire was
\* requested on that tick and the year read on it is at least 2020; so no
\* fire task exists while the year is below 2020.
C9_GunNeedsYear ==
    /\ ev.kind = "spaceship" /\ ev.polled =>
          /\ ev.fires = 1 <=> ev.pressed /\ ev.year >= GUN_AVAILABLE_YEAR
          /\ ev.fires = 0 <=> ~(ev.pressed /\ ev.year >= GUN_AVAILABLE_YEAR)
          /\ ev.fires =
                Cardinality({f \in Tasks("fire") : task[f].born = tick})
    /\ year < GUN_AVAILABLE_YEAR => Tasks("fire") = {}

C9_Witness ==
    /\ ev.kind = "spaceship" /\ ev.polled /\ ev.pressed
    /\ ev.year = GUN_AVAILABLE_YEAR
    /\ \E f \in Tasks("fire") : task[f].born = tick

\* C10: on a canvas that holds the frame and both borders, the box of the
\* spaceship lies inside the playfield whenever the spaceship is drawn.
CanvasHoldsShip(t) ==
    /\ rows_number >= t.rows_size + 2 * BORDER_LENGTH
    /\ columns_number >= t.columns_size + 2 * BORDER_LENGTH

C10_ShipInsidePlayfield ==
    \A id \in Tasks("spaceship") :
       LET t == task[id]
       IN  t.pc = "sleep" /\ CanvasHoldsShip(t) =>
              /\ Unit * BORDER_LENGTH <= t.row
              /\ t.row + Unit * t.rows_size <= Unit * (rows_number - BORDER_LENGTH)
              /\ Unit * BORDER_LENGTH <= t.column
              /\ t.column + Unit * t.columns_size
                    <= Unit * (columns_number - BORDER_LENGTH)

C10_Witness ==
    /\ ev.kind = "spaceship" /\ ev.polled /\ Last.pc = "sleep"
    /\ CanvasHoldsShip(Last)
    /\ Last.column + Unit * Last.columns_size
          = Unit * (columns_number - BORDER_LENGTH)
    /\ Last.row + Unit * Last.rows_size = Unit * (rows_number - BORDER_LENGTH)
    /\ tick >= 3


\* The tick of the last resume of task id: the current one when the pass
\* has already resumed it, the one before otherwise.
LastResume(id) == IF id \in Range(resumed) THEN tick ELSE tick - 1

\* The state is the one the resume described by ev has left: no new pass
\* has started since.
JustResumed == resumed # <<>> /\ resumed[Len(resumed)] = ev.id

\* C11: the year is written by the year clock only and by one at a time,
\* its first increment is made in the 20th tick after the tick of the first
\* resume of the clock and every later one 20 ticks after the one before,
\* with or without a game over: after any resume of the clock, the year is
\* the first year plus the number of whole periods of TICS_PER_YEAR ticks
\* since that first resume, and a step that changes the year is a resume of
\* the clock that adds one.
C11_YearClock ==
    /\ [](\A id \in Tasks("year") :
             task[id].first # 0 =>
                year = FirstYear
                         + ((LastResume(id) - task[id].first) \div TICS_PER_YEAR))
    /\ [][year' # year =>
             /\ year' = year + 1
             /\ Running /\ task[Cur].kind = "year"
             /\ \A id \in Tasks("year") :
                   (tick - task[id].first) % TICS_PER_YEAR = 0]_vars

C11_Witness ==
    /\ JustResumed
    /\ ev.kind = "year" /\ ev.woke
    /\ year = FirstYear + 5
    /\ tick = 101
    /\ \E g \in Tasks("gameover") : task[g].first # 0 /\ task[g].first < tick

\* C12: a resume in which the orbit spawner asks for the delay of the year
\* adds no garbage task and sleeps one tic when there is no delay yet, and
\* adds exactly one garbage task and sleeps the delay d >= 1 when there is
\* one; between two queries it adds nothing, and a query that follows a
\* sleep is made exactly as many ticks after the query before as that one
\* slept.
C12_SpawnCadence ==
    JustResumed /\ ev.kind = "orbit" =>
       LET new == {id \in Tasks("garbage") : task[id].born = tick}
           d == get_garbage_delay_tics(ev.year)
       IN  /\ ~ev.asked => new = {} /\ ev.spawned = 0
           /\ ev.asked /\ d = 0 =>
                 new = {} /\ ev.spawned = 0 /\ Last.slept = 1
           /\ ev.asked /\ d >= 1 =>
                 Cardinality(new) = 1 /\ ev.spawned = 1 /\ Last.slept = d
           /\ ev.asked => Last.called = tick
           /\ ev.asked /\ ev.woke => tick = ev.since + ev.waited

C12_Witness ==
    /\ JustResumed
    /\ ev.kind = "orbit" /\ ev.asked /\ ev.woke
    /\ ev.spawned = 1 /\ ev.waited = 20 /\ ev.since = tick - 20
    /\ \E id \in Tasks("garbage") : task[id].born = ev.since
    /\ \E id \in Tasks("garbage") : task[id].born = tick

\* C13: sleep(N) suspends its caller exactly N times: the statement after
\* it runs in the N-th resume after the resume of the call (one resume per
\* tick), and in the resume of the call itself when N = 0; until then the
\* caller is suspended with between 1 and N awaits left.
C13_SleepYieldsNTimes ==
    /\ JustResumed /\ ev.woke => tick = ev.since + ev.waited
    /\ \A id \in Tasks("star") \cup Tasks("year") :
          task[id].pc = "sleep" =>
             /\ task[id].slept >= 1
             /\ task[id].tics = task[id].slept
                                  - (LastResume(id) - task[id].called)
             /\ task[id].tics >= 1

C13_Witness ==
    /\ JustResumed
    /\ ev.kind = "star" /\ ev.woke
    /\ Last.offset_tics = 0
    /\ Last.first = 1
    /\ ev.since = 1 /\ ev.waited = tics_before_bold /\ tick = 4
    /\ Last.phase = 2


\* C14 as stated: the column of every registered obstacle lies in the
\* canvas columns that exclude the border cells.
C14_ColumnInsidePlayfield ==
    \A id \in Range(obstacles) :
       /\ Unit * BORDER_LENGTH <= task[id].column
       /\ task[id].column <= Unit * (columns_number - 1 - BORDER_LENGTH)

\* C15: a task is out of the collection exactly when it has completed: the
\* resume in which it completes removes it, nothing else is ever removed,
\* and no task the pass has still to resume, or has resumed and left in the
\* collection, has completed.
C15_RemovedIffCompleted ==
    /\ \A id \in DOMAIN task :
          task[id].pc = "done" <=> id \notin Range(coroutines)
    /\ \A i \in 1..Len(snapshot) :
          i >= idx => task[snapshot[i]].pc # "done"
    /\ JustResumed =>
          (ev.completed <=> ev.id \notin Range(coroutines))

C15_Witness ==
    /\ Running
    /\ \E id \in DOMAIN task :
          /\ task[id].pc = "done"
          /\ id \notin Range(coroutines) /\ id \notin Range(snapshot)
    /\ \E id \in Range(snapshot) : task[id].kind = "garbage" /\ task[id].pc = "fall"

\* The number of resumes a live task has had when a pass has ended.
ResumesOf(id) == tick - task[id].first + 1

\* C16: every fire and every garbage task completes after a bounded number
\* of resumes, hence eventually while the scheduler ticks.  When a pass has
\* ended, a fire still in its flight loop after n resumes has advanced n - 2
\* steps of 0.3 rows from its start row without reaching row 0; a garbage
\* task still falling after n resumes has fallen n - 1 steps of 0.5 rows
\* without reaching the bottom row; and one that is exploding started to
\* within 2 * rows + 1 resumes and has at most ExplosionTics awaits left.
C16_BoundedLife ==
    PassDone =>
       \A id \in Range(coroutines) :
          LET t == task[id]
              n == ResumesOf(id)
          IN  t.first # 0 =>
                 /\ t.kind = "fire" =>
                       /\ n <= 2 \/ t.pc = "flight"
                       /\ t.pc = "flight" =>
                             (0 - FireRowsSpeed) * (n - 2) < t.start_row
                 /\ t.kind = "garbage" /\ t.pc = "fall" =>
                       GarbageSpeed * (n - 1) < Unit * rows_number
                 /\ t.kind = "garbage" /\ t.pc = "explode" =>
                       /\ t.tics >= 1 /\ t.tics <= ExplosionTics
                       /\ n - (ExplosionTics - t.tics) <= 2 * rows_number + 1

C16_Witness ==
    /\ JustResumed
    /\ ev.kind = "fire" /\ ev.completed /\ ~ev.hit
    /\ \E g \in Tasks("garbage") : task[g].exit = "bottom"
    /\ \E g \in Tasks("garbage") : task[g].exit = "exploded"

\* C17: a garbage task starts an explosion exactly when the check of its
\* resume finds a record of its own obstacle: it then takes one record out,
\* draws its frame no more and completes when the explosion is over; it
\* explodes at most once, and one that leaves by the bottom of the canvas
\* has found no record and has not exploded.
C17_ExplodesIffStruck ==
    /\ JustResumed /\ ev.kind = "garbage" /\ ev.pc = "fall" =>
          /\ ev.struck <=> Last.pc = "explode"
          /\ ev.struck =>
                /\ ~ev.drew /\ ~ev.completed
                /\ Count(obstacles_in_last_collisions, ev.id) = ev.records - 1
          /\ ev.completed => ~ev.struck /\ Last.exit = "bottom"
    /\ JustResumed /\ ev.kind = "garbage" /\ ev.pc = "explode" => ~ev.drew
    /\ \A id \in Tasks("garbage") :
          /\ task[id].explosions <= 1
          /\ task[id].pc = "explode" => task[id].explosions = 1
          /\ task[id].exit = "exploded" <=>
                (task[id].pc = "done" /\ task[id].explosions = 1)
          /\ task[id].exit = "bottom" <=>
                (task[id].pc = "done" /\ task[id].explosions = 0)

C17_Witness ==
    /\ JustResumed
    /\ ev.kind = "garbage" /\ ev.pc = "explode" /\ ev.completed
    /\ Last.exit = "exploded" /\ Last.explosions = 1
    /\ ev.id \notin Range(obstacles_in_last_collisions)


\* The coroutines main() and the orbit spawner create that never return.
Perpetual == Tasks("star") \cup Tasks("orbit") \cup Tasks("year")
                \cup Tasks("caption") \cup Tasks("gameover")

\* C18: the scheduler never stops, and a game over changes nothing in the
\* scheduling.  No exception leaves a task and a pass that has ended is
\* followed by a new one; once a game-over task exists, the star, the
\* orbit spawner, the year clock, the caption and the game-over task stay
\* in the collection, a pass that has ended has resumed every task of the
\* collection once, the garbage tasks included, and neither the clock nor
\* the spawner has overslept: the year goes on growing and garbage goes on
\* being added.
C18_SchedulingAfterGameOver ==
    /\ ~crashed
    /\ PassDone /\ tick < ClockTicks => ENABLED TickStart(ClockTicks)
    /\ Tasks("gameover") # {} =>
          /\ \A id \in Perpetual :
                id \in Range(coroutines) /\ task[id].pc # "done"
          /\ PassDone =>
                /\ resumed = snapshot
                /\ \A id \in Range(coroutines) :
                      task[id].born < tick => Count(resumed, id) = 1
                /\ \A id \in Tasks("year") \cup Tasks("orbit") :
                      /\ task[id].pc = "sleep"
                      /\ tick < task[id].called + task[id].slept
          /\ \A id \in Tasks("year") :
                year = FirstYear
                         + ((LastResume(id) - task[id].first) \div TICS_PER_YEAR)

C18_Witness ==
    /\ PassDone /\ tick = ClockTicks
    /\ \E g \in Tasks("gameover"), f \in Tasks("garbage") :
          /\ task[g].first # 0
          /\ task[f].born > task[g].first
          /\ task[f].pc = "fall"
          /\ f \in Range(resumed)
          /\ year > FirstYear + ((task[g].first - 1) \div TICS_PER_YEAR)
    /\ \A id \in Perpetual : id \in Range(resumed)
    /\ Tasks("star") # {}

\* The obstacle the last resume has appended a hit record of.
Struck == obstacles_in_last_collisions[Len(obstacles_in_last_collisions)]

\* C19 as stated: a resume of a fire or of the spaceship that records a hit
\* records it for the obstacle of a garbage task that is still falling,
\* never for one whose explosion has begun.
C19_OnlyFallingObstaclesCollide ==
    JustResumed /\ ev.kind \in {"fire", "spaceship"} /\ ev.hits_added > 0 =>
       task[Struck].pc = "fall"

\* C20 as stated: every cell (round(row), round(column)) a fire writes in
\* its flight loop lies inside the border.
C20_FireStaysOffBorder ==
    JustResumed /\ ev.kind = "fire" /\ ev.pc \in {"glyph", "flight"} /\ ev.drew =>
       /\ BORDER_LENGTH <= Round(ev.row)
       /\ Round(ev.row) <= rows_number - 1 - BORDER_LENGTH
       /\ BORDER_LENGTH <= Round(ev.column)
       /\ Round(ev.column) <= columns_number - 1 - BORDER_LENGTH

=============================================================================
